---- MODULE Spec2Model ----
(***************************************************************************)
(* A model of goparse (src/parser.go): the parameter model, the parse     *)
(* engine parseArgs with its hand-off to sub-parsers, and the marshal     *)
(* engine Marshal/marshal.                                                 *)
(*                                                                         *)
(* Go strings are sequences of one-character strings, so that the prefix  *)
(* tests and the prefix stripping of parseArgs are computed, not assumed: *)
(* the token --x is <<"-", "-", "x">>.  A Go map is a function whose       *)
(* DOMAIN is its key set.  A value of type any is a tagged record.  A     *)
(* pointer that may be nil is a sequence of length 0 or 1.  The fields    *)
(* description and valueName are left out: parseArgs and marshal never    *)
(* read them.                                                              *)
(***************************************************************************)
EXTENDS Integers, Sequences, FiniteSets, TLC

VARIABLES
    parser,     \* the Parser instance the caller holds (field args included)
    frame,      \* frame[i]: the local variables of invocation i of parseArgs
    hist,       \* hist[i]: per iteration of invocation i, the token popArg returned (arg),
                \* the tokens popped as flag values (values), the locals before it (before)
    marshalled, \* the last result of Marshal: [out, err, panic]
    reparsed,   \* the result of parsing the tokens of the last marshalled command
    registered  \* the registration calls made on the Parser, each with the error it
                \* returned and the tail the Parser had before it

vars == <<parser, frame, hist, marshalled, reparsed, registered>>

----------------------------------------------------------------------------
(* Strings *)

HasPrefix(s, prefix) ==
    Len(s) >= Len(prefix) /\ SubSeq(s, 1, Len(prefix)) = prefix

TrimPrefix(s, prefix) ==
    IF HasPrefix(s, prefix) THEN SubSeq(s, Len(prefix) + 1, Len(s)) ELSE s

help == <<"h", "e", "l", "p">>

Long(name) == <<"-", "-">> \o name

Short(chars) == <<"-">> \o chars

----------------------------------------------------------------------------
(* Values of type any, and maps *)

Bool(b) == [t |-> "bool", b |-> b]

Str(s) == [t |-> "string", s |-> s]

List(l) == [t |-> "[]string", l |-> l]

EmptyMap == [k \in {} |-> k]

Put(m, k, v) == [x \in DOMAIN m \cup {k} |-> IF x = k THEN v ELSE m[x]]

\* Overlay with the merge the wrong way round: the parent's value is kept
\* on a shared key.
OverlayParentWins(values, result) ==
    [k \in DOMAIN values \cup DOMAIN result |->
        IF k \in DOMAIN values THEN values[k] ELSE result[k]]

\* for key, val := range result { values[key] = val }
Overlay(values, result) ==
    [k \in DOMAIN values \cup DOMAIN result |->
        IF k \in DOMAIN result THEN result[k] ELSE values[k]]

----------------------------------------------------------------------------
(* Error values: one record per fmt.Errorf of parseArgs and marshal *)

ErrMissingValue(name) == [kind |-> "missing value for flag", name |-> name]

ErrUnknownFlag(name) == [kind |-> "unknown flag", name |-> name]

ErrBadArgument(arg, name) == [kind |-> "bad argument", arg |-> arg, name |-> name]

ErrUnexpected(arg) == [kind |-> "received unexpected argument", arg |-> arg]

ErrListCount(name, n) == [kind |-> "list parameter requires at least", name |-> name, n |-> n]

ErrMissingParameter(name) == [kind |-> "missing required parameter", name |-> name]

----------------------------------------------------------------------------
(* The parameter model and the registration operations *)

NewParser ==
    [args |-> <<>>,
     flagParams |-> <<>>,
     valueFlagParams |-> <<>>,
     positionalParams |-> <<>>,
     listParam |-> <<>>,
     subparserArgument |-> <<>>,
     subparsers |-> EmptyMap]

AddFlag(p, longName, shortName, setByDefault) ==
    [p EXCEPT !.flagParams = Append(@,
        [longName |-> longName, shortName |-> shortName, setByDefault |-> setByDefault])]

AddValueFlag(p, longName, shortName, defaultValue) ==
    [p EXCEPT !.valueFlagParams = Append(@,
        [longName |-> longName, shortName |-> shortName, defaultValue |-> defaultValue])]

AddChoiceParameter(p, name, options) ==
    [p EXCEPT !.positionalParams = Append(@,
        [name |-> name, options |-> options, minCount |-> 0])]

AddParameter(p, name) == AddChoiceParameter(p, name, <<>>)

SetListParameter(p, name, min) ==
    [p EXCEPT !.listParam = <<[name |-> name, options |-> <<>>, minCount |-> min]>>]

\* AddListParameter: [p, err]; with a tail already set, the error and the
\* parser as it was.
AddListParameter(p, name, min) ==
    IF p.listParam # <<>>
    THEN [p |-> p, err |-> <<"parsers support a maximum of one list parameter">>]
    ELSE [p |-> [p EXCEPT !.listParam =
                    <<[name |-> name, options |-> <<>>, minCount |-> min]>>],
          err |-> <<>>]

\* An option of the dispatch parameter: a leading _ hides it and is stripped.
SubparserOption(subparserName) ==
    IF subparserName[1] = "_"
    THEN [name |-> Tail(subparserName), hidden |-> TRUE]
    ELSE [name |-> subparserName, hidden |-> FALSE]

\* subparserMap is the sequence of <<name, configured sub-parser>> in the
\* order the range over the Go map visits them.
Subparse(p, name, subparserMap) ==
    LET options == [i \in 1..Len(subparserMap) |-> SubparserOption(subparserMap[i][1])]
        names == {options[i].name : i \in 1..Len(options)}
        last(n) == CHOOSE i \in 1..Len(options) :
                      /\ options[i].name = n
                      /\ \A j \in 1..Len(options) : options[j].name = n => j <= i
        withMap == [p EXCEPT !.subparserArgument = name,
                             !.subparsers = [n \in names |-> subparserMap[last(n)][2]]]
    IN  AddChoiceParameter(withMap, name, options)

----------------------------------------------------------------------------
(* The parse engine: parseArgs *)

\* The first of the indices I at which a range loop finds a match, or 0.
FirstIndex(I) ==
    IF I = {} THEN 0 ELSE CHOOSE i \in I : \A j \in I : i <= j

\* popArg on the remaining tokens args: the value, whether there was one,
\* and the tokens left.
popArg(args) ==
    IF Len(args) = 0
    THEN [val |-> <<>>, ok |-> FALSE, args |-> args]
    ELSE [val |-> Head(args), ok |-> TRUE, args |-> Tail(args)]

\* One entry of the record of pops.
Popped(token, role) == [token |-> token, role |-> role, depth |-> 0]

\* The local variables of parseArgs once the defaults are set; args is the
\* receiver's field p.args, sub what the call of the sub-parser returned
\* (result, subparserErrors), once it is made.  pops is the record of the
\* calls of popArg that returned a token: the token, whether the loop
\* popped it to classify it ("arg") or a value-flag as its value ("value"),
\* and how many hand-offs below this call it was popped.
parseArgsInit(p, args) ==
    [args |-> args,
     values |->
        LET flagNames == {p.flagParams[i].longName : i \in 1..Len(p.flagParams)}
            valueNames == {p.valueFlagParams[i].longName : i \in 1..Len(p.valueFlagParams)}
            lastFlag(n) == CHOOSE i \in 1..Len(p.flagParams) :
                /\ p.flagParams[i].longName = n
                /\ \A j \in 1..Len(p.flagParams) : p.flagParams[j].longName = n => j <= i
            lastValue(n) == CHOOSE i \in 1..Len(p.valueFlagParams) :
                /\ p.valueFlagParams[i].longName = n
                /\ \A j \in 1..Len(p.valueFlagParams) :
                       p.valueFlagParams[j].longName = n => j <= i
        IN  [n \in flagNames \cup valueNames |->
                IF n \in valueNames
                THEN Str(p.valueFlagParams[lastValue(n)].defaultValue)
                ELSE Bool(p.flagParams[lastFlag(n)].setByDefault)],
     hasListParameterArg |-> p.listParam # <<>>,
     listValues |-> <<>>,
     currentArgPos |-> 0,
     errors |-> <<>>,
     sub |-> <<>>,
     pops |-> <<>>,
     returned |-> FALSE]

\* ToggleFlag that negates the flag's current value instead of its default.
ToggleFlagCurrent(p, st, i) ==
    IF i = 0
    THEN st
    ELSE <<[st[1] EXCEPT !.values =
                Put(@, p.flagParams[i].longName,
                    Bool(~st[1].values[p.flagParams[i].longName].b))],
           TRUE>>

\* for _, flagConfig := range p.flagParams: the first flag that matches,
\* the i-th (0: none), is set to the opposite of its default.  st is
\* <<locals, found>>.
ToggleFlag(p, st, i) ==
    IF i = 0
    THEN st
    ELSE <<[st[1] EXCEPT !.values =
                Put(@, p.flagParams[i].longName, Bool(~p.flagParams[i].setByDefault))],
           TRUE>>

\* TakeValue that reads the next token and leaves it in the stream.
TakeValuePeek(flagConfig, shown, st) ==
    LET popped == popArg(st[1].args)
    IN  <<[st[1] EXCEPT
              !.errors = IF popped.ok THEN @ ELSE Append(@, ErrMissingValue(shown)),
              !.values = Put(@, flagConfig.longName, Str(popped.val))],
          TRUE>>

\* The body of a value-flag loop for one matching value-flag: the next
\* token is popped as its value.
TakeValue(flagConfig, shown, st) ==
    LET popped == popArg(st[1].args)
    IN  <<[st[1] EXCEPT
              !.args = popped.args,
              !.pops = IF popped.ok THEN Append(@, Popped(popped.val, "value")) ELSE @,
              !.errors = IF popped.ok THEN @ ELSE Append(@, ErrMissingValue(shown)),
              !.values = Put(@, flagConfig.longName, Str(popped.val))],
          TRUE>>

\* for _, flagConfig := range p.valueFlagParams, long form: every
\* value-flag of that name pops a value (the loop has no break).
RECURSIVE LongValueFlags(_, _, _, _)
LongValueFlags(p, i, longName, st) ==
    IF i > Len(p.valueFlagParams)
    THEN st
    ELSE LongValueFlags(p, i + 1, longName,
            IF p.valueFlagParams[i].longName = longName
            THEN TakeValue(p.valueFlagParams[i], longName, st)
            ELSE st)

\* LongFlag that reports no unknown flag.
LongFlagSilent(p, arg, l) ==
    LET longName == TrimPrefix(arg, <<"-", "-">>)
        flag == FirstIndex({i \in 1..Len(p.flagParams) : p.flagParams[i].longName = longName})
    IN  IF longName = help
        THEN [l EXCEPT !.values = Put(@, help, Bool(TRUE))]
        ELSE LongValueFlags(p, 1, longName, ToggleFlag(p, <<l, FALSE>>, flag))[1]

\* The isLongFlag branch of the loop.
LongFlag(p, arg, l) ==
    LET longName == TrimPrefix(arg, <<"-", "-">>)
        flag == FirstIndex({i \in 1..Len(p.flagParams) : p.flagParams[i].longName = longName})
        st == IF longName = help
              THEN <<[l EXCEPT !.values = Put(@, help, Bool(TRUE))], TRUE>>
              ELSE LongValueFlags(p, 1, longName, ToggleFlag(p, <<l, FALSE>>, flag))
    IN  IF st[2]
        THEN st[1]
        ELSE [st[1] EXCEPT !.errors = Append(@, ErrUnknownFlag(Long(longName)))]

\* One character of a short cluster.
ShortName(p, shortName, l) ==
    LET flag == FirstIndex({i \in 1..Len(p.flagParams) :
                                p.flagParams[i].shortName = shortName})
        flagged == ToggleFlag(p, <<l, FALSE>>, flag)
        v == FirstIndex({i \in 1..Len(p.valueFlagParams) :
                             p.valueFlagParams[i].shortName = shortName})
        st == IF shortName = "h"
              THEN <<[l EXCEPT !.values = Put(@, help, Bool(TRUE))], TRUE>>
              ELSE IF v = 0
                   THEN flagged
                   ELSE TakeValue(p.valueFlagParams[v], <<shortName>>, flagged)
    IN  IF st[2]
        THEN st[1]
        ELSE [st[1] EXCEPT !.errors = Append(@, ErrUnknownFlag(Short(<<shortName>>)))]

\* ShortFlags that handles the first character of the cluster only.
ShortFlagsFirst(p, flags, l) ==
    IF flags = <<>> THEN l ELSE ShortName(p, Head(flags), l)

\* The isShortFlag branch of the loop: for _, shortName := range flags.
RECURSIVE ShortFlags(_, _, _)
ShortFlags(p, flags, l) ==
    IF flags = <<>>
    THEN l
    ELSE ShortFlags(p, Tail(flags), ShortName(p, Head(flags), l))

\* for _, option := range parameterConfig.options: the error is appended
\* when an option's name equals the token.
OptionCheck(parameterConfig, arg, errors) ==
    IF \E i \in 1..Len(parameterConfig.options) : parameterConfig.options[i].name = arg
    THEN Append(errors, ErrBadArgument(arg, parameterConfig.name))
    ELSE errors

\* Positional without the advance of the cursor.
PositionalStuck(parameterConfig, arg, l) ==
    [l EXCEPT !.errors = OptionCheck(parameterConfig, arg, @),
              !.values = Put(@, parameterConfig.name, Str(arg))]

\* A positional that is not the dispatch parameter.
Positional(parameterConfig, arg, l) ==
    [l EXCEPT !.errors = OptionCheck(parameterConfig, arg, @),
              !.values = Put(@, parameterConfig.name, Str(arg)),
              !.currentArgPos = @ + 1]

\* Lookup that gives the parent itself for a missing key.
LookupParent(p, arg) ==
    IF arg \in DOMAIN p.subparsers THEN p.subparsers[arg] ELSE [p EXCEPT !.args = <<>>]

\* subparser, ok := p.subparsers[arg]: a missing key gives the zero Parser.
Lookup(p, arg) ==
    IF arg \in DOMAIN p.subparsers THEN p.subparsers[arg] ELSE NewParser

\* The tokens the selected sub-parser is given.
SubparserArgs(args) == args

\* errors = append(errors, subparserErrors...)
AppendErrors(errors, subparserErrors) == errors \o subparserErrors

\* ListTooShort with <= for <.
ListTooShortOrEqual(listValues, minCount) == Len(listValues) <= minCount

\* len(listValues) < p.listParam.minCount
ListTooShort(listValues, minCount) == Len(listValues) < minCount

\* What parseArgs returns when its loop has run out of tokens.
Finish(p, l) ==
    LET listed ==
            IF l.hasListParameterArg
            THEN [l EXCEPT
                    !.errors = IF ListTooShort(l.listValues, p.listParam[1].minCount)
                               THEN Append(@, ErrListCount(p.listParam[1].name,
                                                           p.listParam[1].minCount))
                               ELSE @,
                    !.values = Put(@, p.listParam[1].name, List(l.listValues))]
            ELSE l
        missing == [i \in 1..(Len(p.positionalParams) - l.currentArgPos) |->
                       ErrMissingParameter(p.positionalParams[l.currentArgPos + i].name)]
        errors == listed.errors \o missing
        helped == help \in DOMAIN listed.values /\ listed.values[help] = Bool(TRUE)
    IN  [values |-> listed.values,
         errors |-> IF helped THEN <<>> ELSE errors,
         accumulated |-> errors,
         args |-> l.args,
         sub |-> l.sub,
         pops |-> l.pops]

RECURSIVE parseArgs(_, _)

\* Dispatch after which the parent goes on with its loop.
DispatchAndGoOn(p, parameterConfig, arg, l) ==
    LET ok == arg \in DOMAIN p.subparsers
        errors == IF ok THEN l.errors
                  ELSE Append(l.errors, ErrBadArgument(arg, parameterConfig.name))
        values == Put(l.values, parameterConfig.name, Str(arg))
        sub == parseArgs(Lookup(p, arg), SubparserArgs(l.args))
    IN  [l EXCEPT !.values = Overlay(values, sub.values),
                  !.errors = AppendErrors(errors, sub.errors),
                  !.sub = <<sub>>,
                  !.pops = @ \o [k \in 1..Len(sub.pops) |->
                                     [sub.pops[k] EXCEPT !.depth = @ + 1]],
                  !.currentArgPos = @ + 1]

\* The hand-off to the sub-parser, which runs on a copy of the map entry
\* with the tokens still in p.args, and the return of the merged result.
Dispatch(p, parameterConfig, arg, l) ==
    LET ok == arg \in DOMAIN p.subparsers
        errors == IF ok THEN l.errors
                  ELSE Append(l.errors, ErrBadArgument(arg, parameterConfig.name))
        values == Put(l.values, parameterConfig.name, Str(arg))
        sub == parseArgs(Lookup(p, arg), SubparserArgs(l.args))
    IN  [l EXCEPT !.values = Overlay(values, sub.values),
                  !.errors = AppendErrors(errors, sub.errors),
                  !.sub = <<sub>>,
                  !.pops = @ \o [k \in 1..Len(sub.pops) |->
                                     [sub.pops[k] EXCEPT !.depth = @ + 1]],
                  !.returned = TRUE]

\* One iteration of the loop of parseArgs on the token arg that popArg
\* returned; popped.args is what popArg left.
ProcessArg(p, arg, popped) ==
    LET l == [popped EXCEPT !.pops = Append(@, Popped(arg, "arg"))]
        isLongFlag == HasPrefix(arg, <<"-", "-">>)
        isShortFlag == HasPrefix(arg, <<"-">>)
        isParameterArg == l.currentArgPos < Len(p.positionalParams)
    IN  IF isLongFlag THEN LongFlag(p, arg, l)
        ELSE IF isShortFlag THEN ShortFlags(p, TrimPrefix(arg, <<"-">>), l)
        ELSE IF isParameterArg
        THEN LET parameterConfig == p.positionalParams[l.currentArgPos + 1]
             IN  IF parameterConfig.name = p.subparserArgument
                 THEN Dispatch(p, parameterConfig, arg, l)
                 ELSE Positional(parameterConfig, arg, l)
        ELSE IF l.hasListParameterArg
        THEN [l EXCEPT !.listValues = Append(@, arg)]
        ELSE [l EXCEPT !.errors = Append(@, ErrUnexpected(arg))]

\* The value parseArgs returns from the locals l: at the return inside the
\* loop the errors are returned as they are.
Returned(p, l) ==
    IF l.returned
    THEN [values |-> l.values, errors |-> l.errors, accumulated |-> l.errors,
          args |-> l.args, sub |-> l.sub, pops |-> l.pops]
    ELSE Finish(p, l)

\* The loop of parseArgs, run to its return.
RECURSIVE Loop(_, _)
Loop(p, l) ==
    IF l.returned \/ l.args = <<>>
    THEN Returned(p, l)
    ELSE Loop(p, ProcessArg(p, Head(l.args), [l EXCEPT !.args = Tail(@)]))

\* parseArgs run alone on a parser p: the mapping and the errors it returns
\* (accumulated: the errors before the help check; args: p.args at the
\* return; sub: what the sub-parser returned, when there was a hand-off).
parseArgs(p, args) == Loop(p, parseArgsInit(p, args))

----------------------------------------------------------------------------
(* The marshal engine: marshal and Marshal *)

\* The characters shellescape.Quote leaves unquoted, among those used here.
SafeChars == {"-", "_", "a", "b", "c", "d", "e", "f", "g", "h", "k", "l", "m", "n", "p",
              "q", "r", "s", "t", "u", "v", "w", "x", "y", "z"}

\* shellescape.Quote: the empty string becomes '', a string of safe
\* characters is kept, any other string is put between single quotes.
Quote(s) ==
    IF s = <<>> THEN <<"'", "'">>
    ELSE IF \A i \in 1..Len(s) : s[i] \in SafeChars THEN s
    ELSE <<"'">> \o s \o <<"'">>

\* The token a POSIX shell passes for the word w that Quote wrote.
Unquote(w) ==
    IF Len(w) >= 2 /\ w[1] = "'" /\ w[Len(w)] = "'"
    THEN SubSeq(w, 2, Len(w) - 1)
    ELSE w

\* The token list a shell makes of the command Marshal returned: the
\* command is the words joined by single spaces.
ShellSplit(words) == [i \in 1..Len(words) |-> Unquote(words[i])]

RECURSIVE Join(_, _)
Join(strs, sep) ==
    IF strs = <<>> THEN <<>>
    ELSE IF Len(strs) = 1 THEN strs[1]
    ELSE strs[1] \o sep \o Join(Tail(strs), sep)

\* fmt.Sprintf("%s", value)
Sprintf(value) ==
    IF value.t = "string" THEN value.s
    ELSE IF value.t = "bool"
    THEN <<"%", "!", "s", "(", "b", "o", "o", "l", "=">>
             \o (IF value.b THEN <<"t", "r", "u", "e">> ELSE <<"f", "a", "l", "s", "e">>)
             \o <<")">>
    ELSE <<"[">> \o Join(value.l, <<" ">>) \o <<"]">>

MarshalErr(kind, name) == [kind |-> kind, name |-> name]

\* The value-flag part of marshal: --long and the value, or the default.
MarshalValueFlags(p, values) ==
    LET word(param) ==
            <<Long(param.longName),
              IF param.longName \in DOMAIN values
              THEN Quote(Sprintf(values[param.longName]))
              ELSE Quote(param.defaultValue)>>
        RECURSIVE all(_)
        all(i) == IF i > Len(p.valueFlagParams) THEN <<>>
                  ELSE word(p.valueFlagParams[i]) \o all(i + 1)
    IN  all(1)

\* FlagEmitted that looks at the default only.
FlagEmittedDefault(param, values) == param.setByDefault

\* Whether marshal emits --long for the flag param.
FlagEmitted(param, values) ==
    IF param.longName \in DOMAIN values
    THEN values[param.longName].b
    ELSE param.setByDefault

\* The flag part of marshal (every mapped flag value is a bool).
MarshalFlags(p, values) ==
    LET RECURSIVE all(_)
        all(i) == IF i > Len(p.flagParams) THEN <<>>
                  ELSE (IF FlagEmitted(p.flagParams[i], values)
                        THEN <<Long(p.flagParams[i].longName)>> ELSE <<>>) \o all(i + 1)
    IN  all(1)

\* The list-parameter part of marshal: [args, err].
MarshalList(p, values) ==
    IF p.listParam = <<>> THEN [args |-> <<>>, err |-> <<>>]
    ELSE LET param == p.listParam[1]
             exists == param.name \in DOMAIN values
         IN  IF ~exists /\ param.minCount > 0
             THEN [args |-> <<>>, err |-> <<MarshalErr("list parameter found none", param.name)>>]
             ELSE IF exists /\ values[param.name].t \in {"[]string", "[]any"}
             THEN IF Len(values[param.name].l) < param.minCount
                  THEN [args |-> <<>>,
                        err |-> <<MarshalErr("list parameter requires at least", param.name)>>]
                  ELSE [args |-> [i \in 1..Len(values[param.name].l) |->
                                     Quote(values[param.name].l[i])],
                        err |-> <<>>]
             ELSE [args |-> <<>>,
                   err |-> <<MarshalErr("expected value of type []any or []string", param.name)>>]

\* marshal: the words of one parser level, or the first error.
marshal(p, values) ==
    LET m == FirstIndex({i \in 1..Len(p.positionalParams) :
                             p.positionalParams[i].name \notin DOMAIN values})
        b == FirstIndex({i \in 1..Len(p.flagParams) :
                             /\ p.flagParams[i].longName \in DOMAIN values
                             /\ values[p.flagParams[i].longName].t # "bool"})
        list == MarshalList(p, values)
    IN  IF m # 0
        THEN [args |-> <<>>,
              err |-> <<MarshalErr("missing required positional parameter",
                                   p.positionalParams[m].name)>>]
        ELSE IF b # 0
        THEN [args |-> <<>>,
              err |-> <<MarshalErr("expected value of type bool", p.flagParams[b].longName)>>]
        ELSE IF list.err # <<>>
        THEN list
        ELSE [args |-> [i \in 1..Len(p.positionalParams) |->
                           Quote(Sprintf(values[p.positionalParams[i].name]))]
                       \o MarshalValueFlags(p, values)
                       \o MarshalFlags(p, values)
                       \o list.args,
              err |-> <<>>]

\* Marshal: out is the sequence of words of the command string (the string
\* is the words joined by spaces), err the error or nothing.  panic: the
\* type assertion subparserName.(string) failed on a dispatch value that
\* is not a string, and Marshal returned nothing.
Marshal(p, executable, values) ==
    LET first == IF executable # <<>> THEN <<executable>> ELSE <<>>
        hasSub == p.subparserArgument # <<>>
        own == marshal(p, values)
        sub == marshal(p.subparsers[values[p.subparserArgument].s], values)
    IN  IF hasSub /\ p.subparserArgument \notin DOMAIN values
        THEN [out |-> <<>>, panic |-> FALSE,
              err |-> <<MarshalErr("subparser argument was not provided",
                                   p.subparserArgument)>>]
        ELSE IF hasSub /\ values[p.subparserArgument].t # "string"
        THEN [out |-> <<>>, panic |-> TRUE, err |-> <<>>]
        ELSE IF hasSub /\ values[p.subparserArgument].s \notin DOMAIN p.subparsers
        THEN [out |-> <<>>, panic |-> FALSE,
              err |-> <<MarshalErr("subparser does not exist", p.subparserArgument)>>]
        ELSE IF own.err # <<>>
        THEN [out |-> <<>>, panic |-> FALSE,
              err |-> <<[kind |-> "marshal arguments", err |-> own.err[1]]>>]
        ELSE IF hasSub /\ sub.err # <<>>
        THEN [out |-> <<>>, panic |-> FALSE,
              err |-> <<[kind |-> "marshal subparser arguments", err |-> sub.err[1]]>>]
        ELSE [out |-> first \o own.args \o (IF hasSub THEN sub.args ELSE <<>>),
              panic |-> FALSE,
              err |-> <<>>]

----------------------------------------------------------------------------
(* The parsers and the token lists the model is run on *)

MaxLen == 3

MaxConcLen == 2

\* The longest sequence of registration calls.
MaxOps == 3

\* The longest token list whose result is marshalled after a change.
MaxAlteredLen == 2

\* Flags only: x and y (y set by default) and the value-flag v.
FlagModel ==
    AddValueFlag(
        AddFlag(AddFlag(NewParser, <<"x">>, "a", FALSE), <<"y">>, "b", TRUE),
        <<"v">>, "c", <<"d">>)

\* Two ordered positionals, the second restricted to m and n; no tail.
PosModel ==
    AddChoiceParameter(
        AddParameter(
            AddValueFlag(AddFlag(NewParser, <<"x">>, "a", FALSE), <<"v">>, "c", <<"d">>),
            <<"p">>),
        <<"q">>,
        <<[name |-> <<"m">>, hidden |-> FALSE], [name |-> <<"n">>, hidden |-> FALSE]>>)

\* One positional and a tail of at least two values.
TailModel ==
    SetListParameter(
        AddParameter(AddFlag(NewParser, <<"y">>, "b", TRUE), <<"p">>),
        <<"r">>, 2)

\* The sub-parser run: its own flag x, the flag f and the positional s.
RunParser ==
    AddParameter(
        AddFlag(AddFlag(NewParser, <<"x">>, "a", FALSE), <<"f">>, "f", FALSE),
        <<"s">>)

\* The hidden sub-parser t: nothing declared.
HiddenParser == NewParser

\* A dispatch parameter cmd between the parent's flag x and its value-flag
\* v, a positional z declared after it, and a tail of at least one value.
CmdModel ==
    SetListParameter(
        AddParameter(
            Subparse(
                AddValueFlag(AddFlag(NewParser, <<"x">>, "a", FALSE), <<"v">>, "c", <<"d">>),
                <<"c", "m", "d">>,
                <<<<<<"r", "u", "n">>, RunParser>>, <<<<"_", "t">>, HiddenParser>>>>),
            <<"z">>),
        <<"r">>, 1)

\* A dispatch parameter alone on the parent level.
PlainCmdModel ==
    Subparse(NewParser, <<"c", "m", "d">>, <<<<<<"r", "u", "n">>, RunParser>>>>)

\* A sub-parser with a dispatch parameter of its own.
GroupParser ==
    Subparse(AddFlag(NewParser, <<"w">>, "w", FALSE), <<"s", "u", "b">>,
             <<<<<<"r", "u", "n">>, RunParser>>>>)

\* Sub-parsers two levels deep: cmd selects g, whose sub selects run; the
\* parent has the flag x and the value-flag v.
NestedModel ==
    Subparse(AddValueFlag(AddFlag(NewParser, <<"x">>, "a", FALSE), <<"v">>, "c", <<"d">>),
             <<"c", "m", "d">>, <<<<<<"g">>, GroupParser>>>>)

\* A dispatch parameter whose registry is empty.
EmptyCmdModel == Subparse(NewParser, <<"c", "m", "d">>, <<>>)

Models ==
    {FlagModel, PosModel, TailModel, CmdModel, PlainCmdModel, NestedModel, EmptyCmdModel}

\* The parameter model of a parser: the parser without its token cursor.
Config(p) == [p EXCEPT !.args = <<>>]

\* The tokens the lists given to a parser are made of.
Vocabulary(p) ==
    CASE Config(p) = FlagModel ->
            {Long(<<"x">>), Long(<<"y">>), Short(<<"a", "b">>), Long(<<"v">>),
             Long(help), Long(<<"u">>), <<"k">>}
      [] Config(p) = PosModel ->
            {<<"k">>, <<"m">>, Long(<<"x">>), Long(<<"v">>), Short(<<"h">>),
             Short(<<"u">>), Short(<<"a", "c">>), <<>>}
      [] Config(p) = TailModel ->
            {<<"k">>, <<"m">>, Long(<<"y">>), Short(<<"b">>), Long(help), <<"-">>}
      [] Config(p) = CmdModel ->
            {<<"r", "u", "n">>, <<"t">>, <<"k">>, Long(<<"x">>), Long(<<"f">>),
             Long(help), Long(<<"v">>)}
      [] Config(p) = NestedModel ->
            {<<"g">>, <<"r", "u", "n">>, <<"k">>, Long(<<"x">>), Long(<<"w">>),
             Short(<<"f", "u">>)}
      [] OTHER ->
            {<<"r", "u", "n">>, <<"k">>, Long(<<"x">>), Short(<<"f">>), Short(<<"h">>)}

\* The tokens of the lists that two concurrent invocations are given.
ConcVocabulary(p) ==
    CASE Config(p) = FlagModel -> {Long(<<"x">>), Long(<<"v">>), <<"k">>}
      [] Config(p) = PosModel -> {<<"k">>, <<"m">>, Long(<<"x">>)}
      [] Config(p) = TailModel -> {<<"k">>, <<"m">>, Long(<<"y">>)}
      [] OTHER -> {<<"r", "u", "n">>, <<"k">>, Long(<<"x">>)}

Lists(S, n) == UNION {[1..k -> S] : k \in 0..n}

\* The mappings Marshal is given directly: booleans for some flags and
\* strings for some value-flags of a parser made of flags only.
FlagMappings(p) ==
    LET flagNames == {p.flagParams[i].longName : i \in 1..Len(p.flagParams)}
        valueNames == {p.valueFlagParams[i].longName : i \in 1..Len(p.valueFlagParams)}
        strings == {<<>>, <<"d">>, <<"k">>, Long(<<"x">>)}
    IN  UNION {UNION {{Overlay(f, g) : f \in [F -> {Bool(TRUE), Bool(FALSE)}],
                                       g \in [G -> {Str(s) : s \in strings}]}
                      : G \in SUBSET valueNames}
               : F \in SUBSET flagNames}

\* The values a caller puts under a key: one of each type, an empty and a
\* one-element list.
OtherValues == {Bool(TRUE), Str(<<"k">>), List(<<>>), List(<<<<"k">>>>)}

\* The mappings made of the mapping a finished call returned.
AlteredMappings(call) ==
    IF call.pc # "done"
    THEN {}
    ELSE LET V == call.result.values
         IN  {V} \cup {[k \in DOMAIN V \ {n} |-> V[k]] : n \in DOMAIN V}
                 \cup {Put(V, n, v) : n \in DOMAIN V, v \in OtherValues}

----------------------------------------------------------------------------
(* The state machine: calls of parseArgs and Marshal on one Parser *)

Calls == {1, 2}

Idle == [pc |-> "idle"]

NoMarshal == [state |-> "none"]

NoReparse == [state |-> "none"]

\* The locals of parseArgs that live on its stack (all but p.args).
Locals(l) == [k \in DOMAIN l \ {"args"} |-> l[k]]

\* The locals together with the receiver's field p.args.
WithArgs(l, args) == [args |-> args] @@ l

Init ==
    /\ parser \in Models
    /\ frame = [i \in Calls |-> Idle]
    /\ hist = [i \in Calls |-> <<>>]
    /\ marshalled = NoMarshal
    /\ reparsed = NoReparse
    /\ registered = <<>>

\* SetArgs that puts the token list behind what an earlier call left.
SetArgsBehind(p, args) == [p EXCEPT !.args = @ \o args]

\* p.args = args
SetArgs(p, args) == [p EXCEPT !.args = args]

\* parseArgs is entered with the token list args: p.args = args, and the
\* defaults are set.  stale: whether an earlier call had left tokens in
\* p.args.
Call(i, args) ==
    /\ frame[i].pc = "idle"
    /\ marshalled = NoMarshal
    /\ parser' = SetArgs(parser, args)
    /\ frame' = [frame EXCEPT ![i] =
            [pc |-> "loop", input |-> args, stale |-> parser.args # <<>>,
             l |-> Locals(parseArgsInit(parser, args))]]
    /\ hist' = [hist EXCEPT ![i] = <<>>]
    /\ UNCHANGED <<marshalled, reparsed, registered>>

\* One iteration of the loop: popArg returns a token and the token is
\* processed; at a dispatch parameter parseArgs returns.
Iterate(i) ==
    /\ frame[i].pc = "loop"
    /\ parser.args # <<>>
    /\ LET popped == popArg(parser.args)
           l == ProcessArg(parser, popped.val, WithArgs(frame[i].l, popped.args))
           taken == Len(popped.args) - Len(l.args)
       IN  /\ parser' = [parser EXCEPT !.args = l.args]
           /\ frame' = [frame EXCEPT ![i] =
                  IF l.returned
                  THEN [pc |-> "done", input |-> @.input, stale |-> @.stale,
                        l |-> Locals(l), result |-> Returned(parser, l)]
                  ELSE [@ EXCEPT !.l = Locals(l)]]
           /\ hist' = [hist EXCEPT ![i] =
                  Append(@, [arg |-> popped.val,
                             values |-> SubSeq(popped.args, 1, taken),
                             before |-> frame[i].l])]
    /\ UNCHANGED <<marshalled, reparsed, registered>>

\* popArg finds no token: the loop is left and parseArgs returns.
Exhausted(i) ==
    /\ frame[i].pc = "loop"
    /\ parser.args = <<>>
    /\ frame' = [frame EXCEPT ![i] =
           [pc |-> "done", input |-> @.input, stale |-> @.stale, l |-> @.l,
            result |-> Finish(parser, WithArgs(@.l, parser.args))]]
    /\ UNCHANGED <<parser, hist, marshalled, reparsed, registered>>

\* The caller drops the result; the Parser keeps its fields.
Return(i) ==
    /\ frame[i].pc = "done"
    /\ frame' = [frame EXCEPT ![i] = Idle]
    /\ hist' = [hist EXCEPT ![i] = <<>>]
    /\ marshalled' = NoMarshal
    /\ reparsed' = NoReparse
    /\ UNCHANGED <<parser, registered>>

\* Marshal("", V) of the mapping V that parseArgs has just returned with
\* no error and no help request.
MarshalResult(i) ==
    /\ frame[i].pc = "done"
    /\ marshalled = NoMarshal
    /\ frame[i].result.errors = <<>>
    /\ help \notin DOMAIN frame[i].result.values
    /\ marshalled' = [state |-> "result", values |-> frame[i].result.values]
                        @@ Marshal(parser, <<>>, frame[i].result.values)
    /\ UNCHANGED <<parser, frame, hist, reparsed, registered>>

\* Marshal("", M) of a mapping M the caller made.
MarshalMapping(M) ==
    /\ \A i \in Calls : frame[i].pc = "idle"
    /\ marshalled = NoMarshal
    /\ marshalled' = [state |-> "mapping", values |-> M] @@ Marshal(parser, <<>>, M)
    /\ UNCHANGED <<parser, frame, hist, reparsed, registered>>

\* Marshal("", M) of a mapping M the caller made of the mapping V that
\* parseArgs has just returned: V itself, V without one of its keys, or V
\* with another value under one of its keys.
MarshalAltered(i, M) ==
    /\ frame[i].pc = "done"
    /\ Len(frame[i].input) <= MaxAlteredLen
    /\ marshalled = NoMarshal
    /\ marshalled' = [state |-> "altered", values |-> M] @@ Marshal(parser, <<>>, M)
    /\ UNCHANGED <<parser, frame, hist, reparsed, registered>>

\* The command Marshal returned is split by a shell and parsed again.
Reparse ==
    /\ marshalled # NoMarshal
    /\ marshalled.err = <<>>
    /\ ~marshalled.panic
    /\ reparsed = NoReparse
    /\ LET result == parseArgs(parser, ShellSplit(marshalled.out))
       IN  /\ reparsed' = [state |-> "parsed", values |-> result.values,
                           errors |-> result.errors]
           /\ parser' = [parser EXCEPT !.args = result.args]
    /\ UNCHANGED <<frame, hist, marshalled, registered>>

\* The caller drops a mapping it marshalled.
Forget ==
    /\ \A i \in Calls : frame[i].pc = "idle"
    /\ marshalled # NoMarshal
    /\ marshalled' = NoMarshal
    /\ reparsed' = NoReparse
    /\ UNCHANGED <<parser, frame, hist, registered>>

\* One caller at a time.
Next ==
    \/ \E args \in Lists(Vocabulary(parser), MaxLen) : Call(1, args)
    \/ Iterate(1)
    \/ Exhausted(1)
    \/ Return(1)
    \/ MarshalResult(1)
    \/ \E M \in FlagMappings(parser) :
           /\ parser.positionalParams = <<>>
           /\ parser.listParam = <<>>
           /\ MarshalMapping(M)
    \/ \E M \in AlteredMappings(frame[1]) : MarshalAltered(1, M)
    \/ Reparse
    \/ Forget

Spec == Init /\ [][Next]_vars

\* Two callers run parseArgs on the same Parser at the same time; each
\* iteration of a loop is taken as one step.
NextConc ==
    \E i \in Calls :
        \/ \E args \in Lists(ConcVocabulary(parser), MaxConcLen) : Call(i, args)
        \/ Iterate(i)
        \/ Exhausted(i)

SpecConc == Init /\ [][NextConc]_vars

----------------------------------------------------------------------------
(* The state machine of registration: a Parser under construction *)

InitReg ==
    /\ parser = NewParser
    /\ frame = [i \in Calls |-> Idle]
    /\ hist = [i \in Calls |-> <<>>]
    /\ marshalled = NoMarshal
    /\ reparsed = NoReparse
    /\ registered = <<>>

\* A registration call op(name, ...) has given the parser p and the error
\* err (none: <<>>).
Register(op, name, p, err) ==
    /\ parser' = p
    /\ registered' = Append(registered,
           [op |-> op, name |-> name, err |-> err, tail |-> parser.listParam])
    /\ UNCHANGED <<frame, hist, marshalled, reparsed>>

RegAddFlag ==
    /\ Len(registered) < MaxOps
    /\ Register("AddFlag", <<"x">>, AddFlag(parser, <<"x">>, "a", FALSE), <<>>)

RegAddValueFlag ==
    /\ Len(registered) < MaxOps
    /\ Register("AddValueFlag", <<"v">>, AddValueFlag(parser, <<"v">>, "c", <<"d">>), <<>>)

RegAddParameter(name) ==
    /\ Len(registered) < MaxOps
    /\ Register("AddParameter", name, AddParameter(parser, name), <<>>)

RegAddChoiceParameter(name) ==
    /\ Len(registered) < MaxOps
    /\ Register("AddChoiceParameter", name,
                AddChoiceParameter(parser, name, <<[name |-> <<"m">>, hidden |-> FALSE]>>),
                <<>>)

RegSetListParameter(name, min) ==
    /\ Len(registered) < MaxOps
    /\ Register("SetListParameter", name, SetListParameter(parser, name, min), <<>>)

RegAddListParameter(name, min) ==
    /\ Len(registered) < MaxOps
    /\ LET added == AddListParameter(parser, name, min)
       IN  Register("AddListParameter", name, added.p, added.err)

RegSubparse(name, subparserMap) ==
    /\ Len(registered) < MaxOps
    /\ Register("Subparse", name, Subparse(parser, name, subparserMap), <<>>)

\* The names and sub-parser maps the registration calls are given.
ParameterNames == {<<"p">>, <<"c", "m", "d">>}

TailNames == {<<"r">>, <<"t">>}

DispatchNames == {<<"c", "m", "d">>, <<"s", "u", "b">>}

SubparserMaps == {<<<<<<"r", "u", "n">>, RunParser>>>>, <<<<<<"_", "t">>, HiddenParser>>>>}

NextReg ==
    \/ RegAddFlag
    \/ RegAddValueFlag
    \/ \E name \in ParameterNames : RegAddParameter(name)
    \/ \E name \in ParameterNames : RegAddChoiceParameter(name)
    \/ \E name \in TailNames : RegSetListParameter(name, 1)
    \/ \E name \in TailNames : RegAddListParameter(name, 1)
    \/ \E name \in DispatchNames, subparserMap \in SubparserMaps :
           RegSubparse(name, subparserMap)

SpecReg == InitReg /\ [][NextReg]_vars

----------------------------------------------------------------------------
(* What the claims are stated over *)

Range(s) == {s[i] : i \in 1..Len(s)}

\* A token parseArgs classifies as a flag: it begins with -.
IsFlagToken(arg) == HasPrefix(arg, <<"-">>)

HelpTokens == {Long(help), Short(<<"h">>)}

\* The locals of invocation i after its k-th iteration.
After(i, k) == IF k < Len(hist[i]) THEN hist[i][k + 1].before ELSE frame[i].l

\* The tokens invocation i classified (popped by the loop itself) that are
\* not flag tokens, in input order.
PlainArgs(i) ==
    LET IsPlain(e) == ~IsFlagToken(e.arg)
        plain == SelectSeq(hist[i], IsPlain)
    IN  [k \in 1..Len(plain) |-> plain[k].arg]

\* The errors of one kind, in order.
OfKind(errors, kind) ==
    LET Is(e) == e.kind = kind
    IN  SelectSeq(errors, Is)

HelpRequested(values) == help \in DOMAIN values /\ values[help] = Bool(TRUE)

\* Parsing finished by running out of tokens, not by a dispatch hand-off.
Ended(i) == frame[i].pc = "done" /\ ~frame[i].l.returned

\* Parsing finished by a dispatch hand-off.
HandedOff(i) == frame[i].pc = "done" /\ frame[i].l.returned

Min(a, b) == IF a < b THEN a ELSE b

----------------------------------------------------------------------------
(* C1 - C4 *)

\* C1 (help precedence): whenever the token list of a finished parse
\* contains --help or -h, at any position and on any parser, the returned
\* mapping has help = true and the returned error list is empty.
C1_HelpPrecedence ==
    (frame[1].pc = "done" /\ Range(frame[1].input) \cap HelpTokens # {})
        => /\ HelpRequested(frame[1].result.values)
           /\ frame[1].result.errors = <<>>

\* C2 (parse/marshal round trip): for a mapping V that parseArgs returned
\* with no error and no help request, Marshal("", V) succeeds, and parsing
\* the tokens of its command gives no error and a mapping equal to V.
C2_RoundTrip ==
    marshalled.state = "result"
        => /\ marshalled.err = <<>>
           /\ reparsed.state = "parsed"
                => /\ reparsed.errors = <<>>
                   /\ reparsed.values = marshalled.values

\* What C3 expects of a flag or value-flag after marshalling M and parsing.
ExpectedOfMapping(p, M) ==
    LET flagNames == {p.flagParams[i].longName : i \in 1..Len(p.flagParams)}
        valueNames == {p.valueFlagParams[i].longName : i \in 1..Len(p.valueFlagParams)}
        flag(n) == CHOOSE f \in Range(p.flagParams) : f.longName = n
        valueFlag(n) == CHOOSE f \in Range(p.valueFlagParams) : f.longName = n
    IN  [n \in flagNames \cup valueNames |->
            IF n \in DOMAIN M THEN M[n]
            ELSE IF n \in flagNames THEN Bool(flag(n).setByDefault)
            ELSE Str(valueFlag(n).defaultValue)]

\* C3 (marshal then parse, flag models): parsing the tokens of
\* Marshal("", M) gives no error, each flag at M's value (its default-set
\* state when M has none) and each value-flag at M's value (its default
\* when M has none).
C3_MarshalThenParse ==
    (marshalled.state = "mapping" /\ reparsed.state = "parsed")
        => /\ reparsed.errors = <<>>
           /\ \A n \in DOMAIN ExpectedOfMapping(parser, marshalled.values) :
                  /\ n \in DOMAIN reparsed.values
                  /\ reparsed.values[n] = ExpectedOfMapping(parser, marshalled.values)[n]

\* C4 (choice validation): an iteration that matches a plain token to a
\* positional other than the dispatch parameter appends a bad-argument
\* error exactly when the parameter has options and the token is none of
\* them; either way it records the token and advances the cursor by one.
C4_ChoiceValidation ==
    \A k \in 1..Len(hist[1]) :
        LET e == hist[1][k]
            pos == e.before.currentArgPos
            param == parser.positionalParams[pos + 1]
            after == After(1, k)
            bad == param.options # <<>>
                     /\ e.arg \notin {param.options[j].name : j \in 1..Len(param.options)}
        IN  (/\ ~IsFlagToken(e.arg)
             /\ pos < Len(parser.positionalParams)
             /\ param.name # parser.subparserArgument)
                => /\ after.errors =
                         IF bad THEN Append(e.before.errors, ErrBadArgument(e.arg, param.name))
                         ELSE e.before.errors
                   /\ after.values[param.name] = Str(e.arg)
                   /\ after.currentArgPos = pos + 1

----------------------------------------------------------------------------
(* C5 - C7 *)

\* The number of tokens invocation i removed in its first k iterations.
RECURSIVE Consumed(_, _)
Consumed(i, k) ==
    IF k = 0 THEN 0 ELSE Consumed(i, k - 1) + 1 + Len(hist[i][k].values)

\* The last iteration of invocation i, the one that handed off.
HandOff(i) == hist[i][Len(hist[i])]

\* The tokens of the input that follow the dispatch token.
AfterDispatch(i) ==
    SubSeq(frame[i].input, Consumed(i, Len(hist[i])) + 1, Len(frame[i].input))

\* C5 (dispatch hand-off): when a plain token at the dispatch parameter
\* names a registered sub-parser, parseArgs returns at once: the mapping
\* is the parent's mapping so far with the token under the dispatch
\* parameter's name, overlaid by what the sub-parser returns for exactly
\* the tokens after it (the sub-parser wins a shared key); the errors are
\* the parent's so far followed by the sub-parser's, so the parent adds no
\* missing-parameter or tail-count error; the parent pops no later token
\* (its cursor still holds them all until the Parser is used again).
C5_DispatchHandOff ==
    (HandedOff(1) /\ HandOff(1).arg \in DOMAIN parser.subparsers)
        => LET d == HandOff(1).arg
               before == HandOff(1).before
               name == parser.subparserArgument
               sub == parseArgs(parser.subparsers[d], AfterDispatch(1))
               result == frame[1].result
           IN  /\ DOMAIN result.values =
                      DOMAIN before.values \cup {name} \cup DOMAIN sub.values
               /\ \A key \in DOMAIN result.values :
                      result.values[key] =
                          IF key \in DOMAIN sub.values THEN sub.values[key]
                          ELSE IF key = name THEN Str(d)
                          ELSE before.values[key]
               /\ result.errors = before.errors \o sub.errors
               /\ \A j \in Len(before.errors) + 1 .. Len(result.errors) :
                      result.errors[j].kind \in
                              {"missing required parameter", "list parameter requires at least"}
                          => result.errors[j] \in Range(sub.errors)
               /\ reparsed = NoReparse => parser.args = AfterDispatch(1)

\* A hand-off to a registered sub-parser with tokens left for it, on a
\* parent that declares a positional after the dispatch parameter and a
\* tail, where the sub-parser's value replaced the parent's on a shared key.
C5_Witness ==
    /\ HandedOff(1)
    /\ HandOff(1).arg \in DOMAIN parser.subparsers
    /\ AfterDispatch(1) # <<>>
    /\ HandOff(1).before.currentArgPos + 1 < Len(parser.positionalParams)
    /\ parser.listParam # <<>>
    /\ \E key \in DOMAIN HandOff(1).before.values :
           /\ key \in DOMAIN parseArgs(parser.subparsers[HandOff(1).arg], AfterDispatch(1)).values
           /\ frame[1].result.values[key] # HandOff(1).before.values[key]

\* The names a parser declares: flags, value-flags and positionals.
DeclaredNames(p) ==
    {p.flagParams[i].longName : i \in 1..Len(p.flagParams)}
        \cup {p.valueFlagParams[i].longName : i \in 1..Len(p.valueFlagParams)}
        \cup {p.positionalParams[i].name : i \in 1..Len(p.positionalParams)}

\* The names declared along the dispatch chain that values selects.
RECURSIVE ChainNames(_, _)
ChainNames(p, values) ==
    DeclaredNames(p) \cup
        IF /\ p.subparserArgument # <<>>
           /\ p.subparserArgument \in DOMAIN values
           /\ values[p.subparserArgument].t = "string"
           /\ values[p.subparserArgument].s \in DOMAIN p.subparsers
        THEN ChainNames(p.subparsers[values[p.subparserArgument].s], values)
        ELSE {}

\* C6 (value-mapping completeness): a mapping returned with no error and
\* no help request has an entry for every flag, value-flag and positional
\* of the parser and of every sub-parser of the chosen dispatch chain.
C6_Completeness ==
    (/\ frame[1].pc = "done"
     /\ frame[1].result.errors = <<>>
     /\ help \notin DOMAIN frame[1].result.values)
        => ChainNames(parser, frame[1].result.values) \subseteq DOMAIN frame[1].result.values

\* C7 (invocation-local cursor): every invocation of parseArgs, whatever
\* runs beside it on the same Parser, returns the mapping and the errors
\* it returns when it runs alone on its token list.
C7_InvocationLocalCursor ==
    \A i \in Calls :
        frame[i].pc = "done"
            => LET alone == parseArgs(Config(parser), frame[i].input)
               IN  /\ frame[i].result.values = alone.values
                   /\ frame[i].result.errors = alone.errors

----------------------------------------------------------------------------
(* C8 - C10 *)

\* The error lists a statement about emitted errors is read on: the errors
\* parseArgs accumulated, and the errors it returned unless help was
\* requested (a help request empties the returned list).
EmittedErrors(result) ==
    {result.accumulated} \cup
        (IF HelpRequested(result.values) THEN {} ELSE {result.errors})

\* C8 (positional ordering and completeness): on a parser with no dispatch
\* parameter the i-th classified token that is not a flag token is recorded
\* under the i-th positional, whatever flag tokens lie between; at the end
\* there is exactly one missing-required-parameter error per positional at
\* or beyond the cursor, in declaration order, and none for a filled one.
C8_PositionalOrdering ==
    (Ended(1) /\ parser.subparserArgument = <<>>)
        => LET plain == PlainArgs(1)
               params == parser.positionalParams
               filled == Min(Len(plain), Len(params))
               result == frame[1].result
           IN  /\ \A j \in 1..filled :
                      /\ params[j].name \in DOMAIN result.values
                      /\ result.values[params[j].name] = Str(plain[j])
               /\ frame[1].l.currentArgPos = filled
               /\ \A errors \in EmittedErrors(result) :
                      OfKind(errors, "missing required parameter") =
                          [j \in 1..(Len(params) - filled) |->
                              ErrMissingParameter(params[filled + j].name)]

\* A finished parse on two positionals where a value-flag took a token as
\* its value, one plain token filled the first positional and the second
\* is reported missing.
C8_Witness ==
    /\ Ended(1)
    /\ parser.subparserArgument = <<>>
    /\ Len(parser.positionalParams) = 2
    /\ Len(PlainArgs(1)) = 1
    /\ \E k \in 1..Len(hist[1]) :
           /\ hist[1][k].values # <<>>
           /\ ~IsFlagToken(hist[1][k].values[1])
           /\ \E j \in k + 1 .. Len(hist[1]) : ~IsFlagToken(hist[1][j].arg)
    /\ frame[1].result.errors =
           <<ErrMissingParameter(parser.positionalParams[2].name)>>

\* The plain tokens that arrived once every positional was filled.
Surplus(i) ==
    SubSeq(PlainArgs(i), Len(parser.positionalParams) + 1, Len(PlainArgs(i)))

\* C9 (variadic tail): without a dispatch hand-off, a parser with a tail
\* of minimum count m records the surplus plain tokens, in input order,
\* under the tail's name, has an insufficient-count error exactly when
\* they are fewer than m, and never an unexpected-argument error; a parser
\* without a tail has exactly one unexpected-argument error per surplus
\* token.
C9_VariadicTail ==
    Ended(1)
        => LET result == frame[1].result
               surplus == Surplus(1)
           IN  IF parser.listParam # <<>>
               THEN /\ parser.listParam[1].name \in DOMAIN result.values
                    /\ result.values[parser.listParam[1].name] = List(surplus)
                    /\ \A errors \in EmittedErrors(result) :
                           /\ OfKind(errors, "list parameter requires at least") =
                                  IF Len(surplus) < parser.listParam[1].minCount
                                  THEN <<ErrListCount(parser.listParam[1].name,
                                                      parser.listParam[1].minCount)>>
                                  ELSE <<>>
                           /\ OfKind(errors, "received unexpected argument") = <<>>
               ELSE \A errors \in EmittedErrors(result) :
                        OfKind(errors, "received unexpected argument") =
                            [j \in 1..Len(surplus) |-> ErrUnexpected(surplus[j])]

\* A finished parse whose tail holds two different values, as many as its
\* minimum, in input order, with no error.
C9_Witness ==
    /\ Ended(1)
    /\ parser.listParam # <<>>
    /\ Len(Surplus(1)) = 2
    /\ parser.listParam[1].minCount = 2
    /\ Surplus(1)[1] # Surplus(1)[2]
    /\ frame[1].result.values[parser.listParam[1].name] = List(Surplus(1))
    /\ frame[1].result.errors = <<>>

\* The iterations of invocation i that processed flagConfig as a flag token:
\* --long, or a short cluster with its alias.
Processings(i, flagConfig) ==
    {k \in 1..Len(hist[i]) :
        \/ hist[i][k].arg = Long(flagConfig.longName)
        \/ /\ IsFlagToken(hist[i][k].arg)
           /\ ~HasPrefix(hist[i][k].arg, <<"-", "-">>)
           /\ flagConfig.shortName \in Range(TrimPrefix(hist[i][k].arg, <<"-">>))}

\* C10 (toggle from default): without a dispatch hand-off a flag's value
\* is the negation of its default-set state if its long name or its alias
\* was processed as a flag token at least once, however often, and its
\* default-set state otherwise; the empty token list gives every flag its
\* default-set state and every value-flag its default string.
C10_ToggleFromDefault ==
    Ended(1)
        => LET values == frame[1].result.values
           IN  /\ \A j \in 1..Len(parser.flagParams) :
                      LET flagConfig == parser.flagParams[j]
                      IN  /\ flagConfig.longName \in DOMAIN values
                          /\ values[flagConfig.longName] =
                                 Bool(IF Processings(1, flagConfig) # {}
                                      THEN ~flagConfig.setByDefault
                                      ELSE flagConfig.setByDefault)
               /\ frame[1].input = <<>> =>
                      \A j \in 1..Len(parser.valueFlagParams) :
                          /\ parser.valueFlagParams[j].longName \in DOMAIN values
                          /\ values[parser.valueFlagParams[j].longName] =
                                 Str(parser.valueFlagParams[j].defaultValue)

\* A finished parse in which a flag that is set by default was processed
\* twice and is false.
C10_Witness ==
    /\ Ended(1)
    /\ \E j \in 1..Len(parser.flagParams) :
           /\ parser.flagParams[j].setByDefault
           /\ Cardinality(Processings(1, parser.flagParams[j])) >= 2
           /\ frame[1].result.values[parser.flagParams[j].longName] = Bool(FALSE)

----------------------------------------------------------------------------
(* C11 - C12 *)

\* The short aliases of the value-flags of p and of the parsers below it.
RECURSIVE ValueAliases(_)
ValueAliases(p) ==
    {p.valueFlagParams[i].shortName : i \in 1..Len(p.valueFlagParams)}
        \cup UNION {ValueAliases(p.subparsers[n]) : n \in DOMAIN p.subparsers}

\* A token -c1...cn, n >= 1, that is not a long flag.
IsCluster(arg) ==
    /\ Len(arg) >= 2
    /\ HasPrefix(arg, <<"-">>)
    /\ ~HasPrefix(arg, <<"-", "-">>)

\* A cluster none of whose characters is the alias of a value-flag.
IsBooleanCluster(p, arg) ==
    /\ IsCluster(arg)
    /\ \A k \in 2..Len(arg) : arg[k] \notin ValueAliases(p)

\* The token list T with the cluster at position j replaced, in place, by
\* one token -c for each of its characters c.
ExpandCluster(T, j) ==
    SubSeq(T, 1, j - 1)
        \o [k \in 1..(Len(T[j]) - 1) |-> Short(<<T[j][k + 1]>>)]
        \o SubSeq(T, j + 1, Len(T))

\* The finished parse returned what parseArgs returns for the token list
\* with the cluster at position j expanded.
SameAsExpanded(i, j) ==
    LET expanded == parseArgs(Config(parser), ExpandCluster(frame[i].input, j))
    IN  /\ frame[i].result.values = expanded.values
        /\ frame[i].result.errors = expanded.errors

\* C11 as stated (short-cluster expansion): for any token list containing a
\* short cluster whose characters are boolean-flag aliases, h or
\* unregistered aliases, parseArgs returns the same mapping and the same
\* errors as for the list with the cluster replaced by its n separate
\* tokens -c1 ... -cn.
C11_ClusterExpansion ==
    frame[1].pc = "done"
        => \A j \in 1..Len(frame[1].input) :
               IsBooleanCluster(parser, frame[1].input[j]) => SameAsExpanded(1, j)

\* C11, amended: the same holds for every such cluster that the loop pops
\* to classify it, at any parser level; a cluster that a value-flag takes
\* as its value is excluded (its expansion would give the value-flag -c1
\* only and classify the rest).
C11_ClassifiedClusterExpansion ==
    frame[1].pc = "done"
        => \A j \in 1..Len(frame[1].result.pops) :
               /\ frame[1].result.pops[j].role = "arg"
               /\ IsBooleanCluster(parser, frame[1].input[j])
               => SameAsExpanded(1, j)

\* A finished parse classified a cluster of two characters or more, one of
\* them a flag it toggled, another one reported or toggled too.
C11_Witness ==
    /\ frame[1].pc = "done"
    /\ \E j \in 1..Len(frame[1].result.pops) :
           /\ frame[1].result.pops[j].role = "arg"
           /\ IsBooleanCluster(parser, frame[1].input[j])
           /\ Len(frame[1].input[j]) >= 3
           /\ LET defaults == parseArgsInit(Config(parser), <<>>).values
               IN  \E n \in DOMAIN defaults \cap DOMAIN frame[1].result.values :
                       /\ defaults[n].t = "bool"
                       /\ frame[1].result.values[n] = Bool(~defaults[n].b)


\* The tokens at which a parse handed off to a sub-parser, outermost first:
\* the pops that are followed by a pop made one level further down.
DispatchTokens(pops) ==
    LET IsLast(k) == k < Len(pops) /\ pops[k + 1].depth > pops[k].depth
        at == {k \in 1..Len(pops) : IsLast(k)}
        nth(n) == CHOOSE k \in at : Cardinality({j \in at : j < k}) = n - 1
    IN  [n \in 1..Cardinality(at) |-> pops[nth(n)].token]

\* The parser d levels below p along the chain the tokens select.
RECURSIVE Descend(_, _, _)
Descend(p, tokens, d) ==
    IF d = 0 THEN p ELSE Descend(Lookup(p, Head(tokens)), Tail(tokens), d - 1)

\* The parser whose call of popArg made the j-th pop.
LevelParser(pops, j) == Descend(Config(parser), DispatchTokens(pops), pops[j].depth)

LongNames(p) ==
    {p.flagParams[i].longName : i \in 1..Len(p.flagParams)}
        \cup {p.valueFlagParams[i].longName : i \in 1..Len(p.valueFlagParams)}

ShortNames(p) ==
    {p.flagParams[i].shortName : i \in 1..Len(p.flagParams)}
        \cup {p.valueFlagParams[i].shortName : i \in 1..Len(p.valueFlagParams)}

\* The unknown-flag errors the claim attaches to one token read against the
\* parser p: one for a --name that is not help and not registered, one for
\* each character of a cluster that is not h and not a registered alias.
UnknownOccurrences(p, token) ==
    IF HasPrefix(token, <<"-", "-">>)
    THEN LET name == TrimPrefix(token, <<"-", "-">>)
         IN  IF name = help \/ name \in LongNames(p)
             THEN <<>>
             ELSE <<ErrUnknownFlag(Long(name))>>
    ELSE IF HasPrefix(token, <<"-">>)
    THEN LET flags == TrimPrefix(token, <<"-">>)
             IsUnknown(c) == c # "h" /\ c \notin ShortNames(p)
             unknown == SelectSeq(flags, IsUnknown)
         IN  [k \in 1..Len(unknown) |-> ErrUnknownFlag(Short(<<unknown[k]>>))]
    ELSE <<>>

\* The unknown-flag errors of the first n pops, in input order; every pop
\* counts, or only the pops of the loop (role "arg").
RECURSIVE UnknownOfPops(_, _, _)
UnknownOfPops(pops, n, roles) ==
    IF n = 0
    THEN <<>>
    ELSE UnknownOfPops(pops, n - 1, roles)
            \o (IF pops[n].role \in roles
                THEN UnknownOccurrences(LevelParser(pops, n), pops[n].token)
                ELSE <<>>)

\* The token without what UnknownOccurrences counts in it; an unknown
\* --name is dropped (<<>> stands for no token here, see WithoutUnknown).
Known(p, token) ==
    IF HasPrefix(token, <<"-", "-">>)
    THEN token
    ELSE IF HasPrefix(token, <<"-">>)
    THEN LET IsKnown(c) == c = "h" \/ c \in ShortNames(p)
         IN  Short(SelectSeq(TrimPrefix(token, <<"-">>), IsKnown))
    ELSE token

\* The popped tokens without the unknown flags among the classified ones.
RECURSIVE WithoutUnknown(_, _)
WithoutUnknown(pops, n) ==
    IF n = 0
    THEN <<>>
    ELSE LET q == LevelParser(pops, n)
             token == pops[n].token
             drop == /\ pops[n].role = "arg"
                     /\ HasPrefix(token, <<"-", "-">>)
                     /\ UnknownOccurrences(q, token) # <<>>
             keep == IF pops[n].role = "arg" THEN Known(q, token) ELSE token
         IN  WithoutUnknown(pops, n - 1) \o (IF drop THEN <<>> ELSE <<keep>>)


\* The finished parse returned the unknown-flag errors expected, in input
\* order, popped every token, and processed the other tokens as if the
\* unknown flags were not there.
UnknownAccumulated(i, expected) ==
    LET result == frame[i].result
        IsOther(e) == e.kind # "unknown flag"
        without == parseArgs(Config(parser), WithoutUnknown(result.pops, Len(result.pops)))
    IN  /\ OfKind(result.errors, "unknown flag") = expected
        /\ Len(result.pops) = Len(frame[i].input)
        /\ result.values = without.values
        /\ SelectSeq(result.errors, IsOther) = SelectSeq(without.errors, IsOther)

\* C12 as stated (unknown-flag accumulation): when help is not requested,
\* every --name token that matches no registered flag or value-flag and
\* every character of a short cluster that matches no registered alias adds
\* exactly one unknown-flag error, in input order, and the tokens after it
\* are still processed.
C12_UnknownFlagAccumulation ==
    frame[1].pc = "done" /\ ~HelpRequested(frame[1].result.values)
        => UnknownAccumulated(1, UnknownOfPops(frame[1].result.pops,
                                               Len(frame[1].result.pops),
                                               {"arg", "value"}))

\* C12, amended: the same for the tokens the loop pops to classify, read
\* against the parser level that pops them; a token that a value-flag takes
\* as its value adds no error whatever its form.
C12_ClassifiedUnknownFlags ==
    frame[1].pc = "done" /\ ~HelpRequested(frame[1].result.values)
        => UnknownAccumulated(1, UnknownOfPops(frame[1].result.pops,
                                               Len(frame[1].result.pops),
                                               {"arg"}))

\* A finished parse without help returned two unknown-flag errors or more,
\* the first for its first token, and set or recorded something after it.
C12_Witness ==
    /\ frame[1].pc = "done"
    /\ ~HelpRequested(frame[1].result.values)
    /\ Len(OfKind(frame[1].result.errors, "unknown flag")) >= 2
    /\ UnknownOccurrences(Config(parser), frame[1].input[1]) # <<>>
    /\ frame[1].result.values # parseArgsInit(Config(parser), <<>>).values


----------------------------------------------------------------------------
(* C13 - C15 *)

\* C13 (Marshal is fail-fast with error values): for every parser and every
\* mapping, Marshal returns a command with no error, or the empty string
\* with exactly one error; it never returns a partial command and never
\* aborts abnormally.
C13_MarshalFailFast ==
    marshalled.state # "none"
        => /\ ~marshalled.panic
           /\ \/ marshalled.err = <<>>
              \/ marshalled.out = <<>> /\ Len(marshalled.err) = 1


\* The words the claim expects of one parser level p for the mapping
\* values: a word per positional, --long and the value (or the default) per
\* value-flag, --long of the flags that resolve to true, the tail's values.
LevelWords(p, values) ==
    LET positionals == [i \in 1..Len(p.positionalParams) |->
                           Quote(Sprintf(values[p.positionalParams[i].name]))]
        valueOf(param) == IF param.longName \in DOMAIN values
                          THEN Sprintf(values[param.longName])
                          ELSE param.defaultValue
        valueFlags == [i \in 1..(2 * Len(p.valueFlagParams)) |->
                          LET param == p.valueFlagParams[(i + 1) \div 2]
                          IN  IF i % 2 = 1 THEN Long(param.longName)
                              ELSE Quote(valueOf(param))]
        IsTrue(param) == IF param.longName \in DOMAIN values
                         THEN values[param.longName] = Bool(TRUE)
                         ELSE param.setByDefault
        set == SelectSeq(p.flagParams, IsTrue)
        flags == [i \in 1..Len(set) |-> Long(set[i].longName)]
        tail == IF p.listParam = <<>>
                THEN <<>>
                ELSE [i \in 1..Len(values[p.listParam[1].name].l) |->
                         Quote(values[p.listParam[1].name].l[i])]
    IN  positionals \o valueFlags \o flags \o tail

\* Marshal returned a command.
Marshalled == marshalled.state # "none" /\ ~marshalled.panic /\ marshalled.err = <<>>

\* C14 (Marshal token order): the command Marshal returns is, for the
\* parser, its positionals in declaration order, then --long and the value
\* of every value-flag in declaration order (the default when the mapping
\* has none), then --long of exactly the flags that resolve to true, then
\* the tail's values; when a dispatch parameter is declared, the words of
\* the selected sub-parser, built from the same mapping, follow all of the
\* parent's.
C14_MarshalTokenOrder ==
    Marshalled
        => marshalled.out =
               LevelWords(Config(parser), marshalled.values)
                   \o (IF parser.subparserArgument = <<>>
                       THEN <<>>
                       ELSE LevelWords(
                                parser.subparsers[marshalled.values[parser.subparserArgument].s],
                                marshalled.values))

\* Marshal returned a command for a parser with a dispatch parameter, a
\* value-flag and a flag that resolves to true, and the selected sub-parser
\* added words of its own.
C14_Witness ==
    /\ Marshalled
    /\ parser.subparserArgument # <<>>
    /\ parser.valueFlagParams # <<>>
    /\ \E i \in 1..Len(parser.flagParams) :
           /\ parser.flagParams[i].longName \in DOMAIN marshalled.values
           /\ marshalled.values[parser.flagParams[i].longName] = Bool(TRUE)
    /\ Len(marshalled.out) > Len(LevelWords(Config(parser), marshalled.values))


\* The dispatch value of the mapping values selects a sub-parser of p.
Selects(p, values) ==
    /\ p.subparserArgument # <<>>
    /\ p.subparserArgument \in DOMAIN values
    /\ values[p.subparserArgument].t = "string"
    /\ values[p.subparserArgument].s \in DOMAIN p.subparsers

Selected(p, values) == p.subparsers[values[p.subparserArgument].s]

\* The words of every parser along the chain the mapping selects,
\* outermost first.
RECURSIVE ChainWords(_, _)
ChainWords(p, values) ==
    LevelWords(p, values)
        \o (IF Selects(p, values) THEN ChainWords(Selected(p, values), values) ELSE <<>>)

\* Every dispatch parameter along the chain the mapping selects has a
\* registered value.
RECURSIVE ChainResolves(_, _)
ChainResolves(p, values) ==
    p.subparserArgument # <<>>
        => Selects(p, values) /\ ChainResolves(Selected(p, values), values)

\* Every parser along the chain the mapping selects can marshal its own
\* level.
RECURSIVE ChainMarshals(_, _)
ChainMarshals(p, values) ==
    /\ marshal(p, values).err = <<>>
    /\ Selects(p, values) => ChainMarshals(Selected(p, values), values)

\* C15 (Marshal follows the whole dispatch chain): when the selected
\* sub-parser declares a dispatch parameter itself, Marshal resolves that
\* value too: an unregistered discriminator at any depth is an error, and
\* otherwise the command has the words of every parser along the chain,
\* outermost first.
C15_MarshalDispatchChain ==
    /\ marshalled.state # "none"
    /\ ~marshalled.panic
    /\ Selects(parser, marshalled.values)
    /\ Selected(parser, marshalled.values).subparserArgument # <<>>
    => IF /\ ChainResolves(Config(parser), marshalled.values)
          /\ ChainMarshals(Config(parser), marshalled.values)
       THEN /\ marshalled.err = <<>>
            /\ marshalled.out = ChainWords(Config(parser), marshalled.values)
       ELSE marshalled.err # <<>>


----------------------------------------------------------------------------
(* C16 - C17 *)

\* The value-flags of p that the token arg matches, in the order in which
\* the loop comes to them, each with the name its error shows: all those of
\* that long name, or for each character of a cluster the first of that
\* alias.
MatchedValueFlags(p, arg) ==
    IF HasPrefix(arg, <<"-", "-">>)
    THEN LET longName == TrimPrefix(arg, <<"-", "-">>)
             Is(param) == longName # help /\ param.longName = longName
             matched == SelectSeq(p.valueFlagParams, Is)
         IN  [k \in 1..Len(matched) |-> [param |-> matched[k], shown |-> longName]]
    ELSE IF HasPrefix(arg, <<"-">>)
    THEN LET flags == TrimPrefix(arg, <<"-">>)
             first(c) == FirstIndex({i \in 1..Len(p.valueFlagParams) :
                                         p.valueFlagParams[i].shortName = c})
             IsAlias(c) == c # "h" /\ first(c) # 0
             aliases == SelectSeq(flags, IsAlias)
         IN  [k \in 1..Len(aliases) |->
                 [param |-> p.valueFlagParams[first(aliases[k])], shown |-> <<aliases[k]>>]]
    ELSE <<>>

\* What the k-th iteration of invocation i has to do for the value-flags
\* its token matches: take the next unread tokens, one per match, as their
\* values; report each match left without a token and give it "".
LookaheadDone(i, k) ==
    LET e == hist[i][k]
        after == After(i, k)
        matched == MatchedValueFlags(Config(parser), e.arg)
        at == Consumed(i, k - 1) + 1
        unread == SubSeq(frame[i].input, at + 1, Len(frame[i].input))
        taken == SubSeq(unread, 1, Min(Len(matched), Len(unread)))
        valueOf(m) == IF m <= Len(taken) THEN taken[m] ELSE <<>>
        last(n) == CHOOSE m \in 1..Len(matched) :
                       /\ matched[m].param.longName = n
                       /\ \A m2 \in 1..Len(matched) :
                              matched[m2].param.longName = n => m2 <= m
        missing == [m \in 1..(Len(matched) - Len(taken)) |->
                       ErrMissingValue(matched[Len(taken) + m].shown)]
    IN  /\ frame[i].input[at] = e.arg
        /\ e.values = taken
        /\ \A m \in 1..Len(matched) :
               after.values[matched[m].param.longName]
                   = Str(valueOf(last(matched[m].param.longName)))
        /\ OfKind(after.errors, "missing value for flag")
               = OfKind(e.before.errors, "missing value for flag") \o missing

\* After a classified token, one pop of role "value" follows for each
\* value-flag it matches (as far as there are tokens), and none on any
\* other token: a token taken as a value is never classified.
ValuesNotClassified(pops) ==
    \A j \in 1..Len(pops) :
        pops[j].role = "arg"
            => LET n == Len(MatchedValueFlags(LevelParser(pops, j), pops[j].token))
               IN  /\ \A m \in 1..n :
                          j + m <= Len(pops) => pops[j + m].role = "value"
                   /\ j + n + 1 <= Len(pops) => pops[j + n + 1].role = "arg"

\* The value-flag param was matched by none of the tokens classified so far.
NeverMatched(i, param) ==
    \A k \in 1..Len(hist[i]) :
        \A m \in 1..Len(MatchedValueFlags(Config(parser), hist[i][k].arg)) :
            MatchedValueFlags(Config(parser), hist[i][k].arg)[m].param # param


\* C16 (value-flag lookahead): a value-flag matched by its long name or by
\* a character of a cluster takes the next unread token as its value,
\* whatever its form, and that token is never classified; with no token
\* left it adds exactly one missing-value error and records the empty
\* string.  A value-flag that no token matched keeps its default.
C16_ValueFlagLookahead ==
    frame[1].pc \in {"loop", "done"}
        => /\ \A k \in 1..Len(hist[1]) : LookaheadDone(1, k)
           /\ ValuesNotClassified(frame[1].l.pops)
           /\ \A v \in 1..Len(parser.valueFlagParams) :
                  LET param == parser.valueFlagParams[v]
                  IN  NeverMatched(1, param) /\ ~frame[1].l.returned
                          => /\ frame[1].l.values[param.longName] = Str(param.defaultValue)
                             /\ Ended(1) => frame[1].result.values[param.longName]
                                                = Str(param.defaultValue)

\* A finished parse in which a character of a cluster took a token that
\* begins with - as its value, and a later value-flag found no token left.
C16_Witness ==
    /\ frame[1].pc = "done"
    /\ \E k \in 1..Len(hist[1]) :
           /\ IsCluster(hist[1][k].arg)
           /\ hist[1][k].values # <<>>
           /\ IsFlagToken(hist[1][k].values[1])
    /\ \E k \in 1..Len(hist[1]) :
           /\ MatchedValueFlags(Config(parser), hist[1][k].arg) # <<>>
           /\ hist[1][k].values = <<>>
           /\ frame[1].result.values[
                  MatchedValueFlags(Config(parser), hist[1][k].arg)[1].param.longName]
                  = Str(<<>>)


\* The errors the claim expects of the zero-value parser for the tokens
\* rest: an unknown-flag error for each long flag and each character of a
\* cluster other than help, an unexpected-argument error for each plain
\* token.
RECURSIVE ZeroParserErrors(_)
ZeroParserErrors(rest) ==
    IF rest = <<>>
    THEN <<>>
    ELSE (IF IsFlagToken(Head(rest))
          THEN UnknownOccurrences(NewParser, Head(rest))
          ELSE <<ErrUnexpected(Head(rest))>>)
             \o ZeroParserErrors(Tail(rest))

\* Invocation i handed off at a token that names no registered sub-parser.
BadHandOff(i) == HandedOff(i) /\ HandOff(i).arg \notin DOMAIN parser.subparsers

\* C17 (invalid dispatch value): when the token at the dispatch position
\* names no registered sub-parser, parseArgs adds exactly one bad-argument
\* error for the dispatch parameter, records the token as its value, and
\* parses the remaining tokens against a zero-value parser: each remaining
\* flag other than help yields an unknown-flag error and each plain token
\* an unexpected-argument error (returned unless help is among them); the
\* parent returns with no missing-parameter or tail check of its own.
C17_InvalidDispatchValue ==
    BadHandOff(1)
        => LET arg == HandOff(1).arg
               before == HandOff(1).before
               name == parser.subparserArgument
               rest == AfterDispatch(1)
               sub == frame[1].result.sub[1]
               result == frame[1].result
               zero == ZeroParserErrors(rest)
               helped == Range(rest) \cap HelpTokens # {}
                             \/ \E j \in 1..Len(rest) :
                                    IsCluster(rest[j]) /\ "h" \in Range(rest[j])
           IN  /\ sub.accumulated = zero
               /\ Len(sub.pops) = Len(rest)
               /\ sub.errors = IF helped THEN <<>> ELSE zero
               /\ result.errors
                      = before.errors \o <<ErrBadArgument(arg, name)>> \o sub.errors
               /\ DOMAIN sub.values = IF helped THEN {help} ELSE {}
               /\ result.values = Overlay(Put(before.values, name, Str(arg)), sub.values)
               /\ result.values[name] = Str(arg)

\* A hand-off at an unregistered token with a flag and a plain token after
\* it, no help among them, on a parent that declares a positional after the
\* dispatch parameter and a tail.
C17_Witness ==
    /\ BadHandOff(1)
    /\ \E j \in 1..Len(AfterDispatch(1)) : IsFlagToken(AfterDispatch(1)[j])
    /\ \E j \in 1..Len(AfterDispatch(1)) : ~IsFlagToken(AfterDispatch(1)[j])
    /\ ~HelpRequested(frame[1].result.values)
    /\ OfKind(frame[1].result.errors, "unknown flag") # <<>>
    /\ OfKind(frame[1].result.errors, "received unexpected argument") # <<>>
    /\ parser.listParam # <<>>
    /\ Len(parser.positionalParams) > HandOff(1).before.currentArgPos + 1


----------------------------------------------------------------------------
(* C18 - C20 *)

\* The positionals of p that act as its dispatch parameter.
DispatchPositionals(p) ==
    {i \in 1..Len(p.positionalParams) :
        p.subparserArgument # <<>> /\ p.positionalParams[i].name = p.subparserArgument}

\* The last registration call set a tail on a parser that had one.
SecondTail ==
    /\ registered # <<>>
    /\ registered[Len(registered)].op \in {"SetListParameter", "AddListParameter"}
    /\ registered[Len(registered)].tail # <<>>

\* C18 (registration invariant): after any sequence of registration calls
\* the parser has at most one positional that acts as the dispatch
\* parameter and at most one tail; registering a second tail is reported
\* as an error and leaves the first tail as it was.
C18_RegistrationInvariant ==
    /\ Cardinality(DispatchPositionals(parser)) <= 1
    /\ Len(parser.listParam) <= 1
    /\ SecondTail
           => /\ registered[Len(registered)].err # <<>>
              /\ parser.listParam = registered[Len(registered)].tail


Max(S) == CHOOSE x \in S : \A y \in S : y <= x

\* The depth of the sub-parser tree of p: the longest chain of dispatch
\* parameters, each on a sub-parser registered under the one before.
RECURSIVE TreeDepth(_)
TreeDepth(p) ==
    IF DispatchPositionals(p) = {}
    THEN 0
    ELSE 1 + Max({0} \cup {TreeDepth(p.subparsers[n]) : n \in DOMAIN p.subparsers})

\* How many calls of parseArgs are nested below one that returned sub.
RECURSIVE CallDepth(_)
CallDepth(sub) == IF sub = <<>> THEN 0 ELSE 1 + CallDepth(sub[1].sub)

PopTokens(pops) == [k \in 1..Len(pops) |-> pops[k].token]

\* The calls of popArg so far removed the first tokens of the input, each
\* once and in order, each by one parser level and in one role; the rest
\* is still in the stream; no iteration went without a token; the calls
\* are nested no deeper than the sub-parser tree; at the return every
\* token has been removed.
SingleConsumption(i) ==
    LET l == frame[i].l
        input == frame[i].input
    IN  /\ PopTokens(l.pops) = SubSeq(input, 1, Len(l.pops))
        /\ \A k \in 1..Len(l.pops) :
               /\ l.pops[k].role \in {"arg", "value"}
               /\ l.pops[k].depth \in 0..CallDepth(l.sub)
        /\ frame[i].pc = "loop"
               => parser.args = SubSeq(input, Len(l.pops) + 1, Len(input))
        /\ Len(hist[i]) <= Len(l.pops)
        /\ CallDepth(l.sub) <= TreeDepth(Config(parser))
        /\ frame[i].pc = "done" => Len(l.pops) = Len(input)

\* C19 (termination and single consumption): parseArgs terminates for
\* every token list (its loop makes no more iterations than there are
\* tokens, each removing at least one, and returns when none is left);
\* every input token is removed from the stream exactly once, by exactly
\* one parser level, as a classified token or as a value-flag's value; the
\* recursion is never deeper than the sub-parser tree.
C19_TerminationSingleConsumption ==
    frame[1].pc \in {"loop", "done"} => SingleConsumption(1)

\* A parse of three tokens returned from two hand-offs deep, on a tree of
\* depth two, the three tokens removed by three different levels.
C19_Witness ==
    /\ frame[1].pc = "done"
    /\ Len(frame[1].input) = 3
    /\ CallDepth(frame[1].l.sub) = 2
    /\ TreeDepth(Config(parser)) = 2
    /\ {frame[1].l.pops[k].depth : k \in 1..Len(frame[1].l.pops)} = {0, 1, 2}


\* The mapping and the errors are those parseArgs returns for the tokens
\* on the fresh parser p.
AsOnFresh(p, tokens, values, errors) ==
    LET fresh == parseArgs(p, tokens)
    IN  values = fresh.values /\ errors = fresh.errors

\* One step of the calls on a Parser: the parameter model is what it was,
\* and a call of parseArgs that returns in this step returns what a fresh
\* parser with that model returns for its token list.
ReuseStep ==
    /\ Config(parser') = Config(parser)
    /\ (frame[1].pc = "loop" /\ frame'[1].pc = "done")
           => AsOnFresh(Config(parser), frame'[1].input,
                        frame'[1].result.values, frame'[1].result.errors)
    /\ (reparsed.state = "none" /\ reparsed'.state = "parsed")
           => AsOnFresh(Config(parser), ShellSplit(marshalled.out),
                        reparsed'.values, reparsed'.errors)

\* C20 (parser reuse): parseArgs and Marshal leave the parameter model of
\* the parser unchanged, and whatever calls were made on the instance
\* before (parses that handed off or left tokens in the stream, marshals),
\* a later parseArgs(T) returns the mapping and the errors that a fresh
\* parser with the same model returns for T.
C20_ParserReuse == [][ReuseStep]_vars

\* A call of parseArgs with tokens, entered when an earlier call on the
\* same Parser had left tokens in its stream, has returned.
C20_Witness ==
    /\ frame[1].pc = "done"
    /\ frame[1].stale
    /\ frame[1].input # <<>>
    /\ AsOnFresh(Config(parser), frame[1].input,
                 frame[1].result.values, frame[1].result.errors)

====
